---- MODULE Spec2Model ----
(***************************************************************************)
(* UTC-anchored playback synchronisation engine of the <synced-audio>      *)
(* web component (src/modules/synced-audio.js).                            *)
(*                                                                         *)
(* All times and positions are integer milliseconds: the source computes   *)
(* in seconds (Date.now()/1000, currentTime) and in milliseconds (drift,   *)
(* allowed, _lastSeek); multiplying the second-valued quantities by 1000   *)
(* keeps every comparison of the source exact.                             *)
(***************************************************************************)
EXTENDS Integers, Sequences, FiniteSets, TLC

\* ------------------------------------------------------------------------
\* Program constants (synced-audio.js)
\* ------------------------------------------------------------------------
IOS_LAG_DEFAULT == -1000
AND_LAG_DEFAULT == 0
DefaultDurationMs == 1800000
DefaultAllowedMs == 300
DesktopTickMs == 16
MobileTickMs == 100
StuckPosMs == 2000
StuckLimit == 10
LoopWindowMs == 100
LoopHoldMs == 200
RateLimitMs == 500
SafeMarginMs == 500
EdgeAheadMs == 500
EdgeBackoffMs == 200
ForceJumpMs == 2000
EnsureDelayMs == 100
RecoverDelayMs == 100
SeekOffsetMs == 10000

\* ------------------------------------------------------------------------
\* Bounds of the model
\* ------------------------------------------------------------------------
MaxElapsedDesktop == 208
MaxElapsedMobile == 1100
MaxEnv == 3
MaxClockSteps == 3
MaxEvq == 2
IdleStepMs == 600
MaxOracleSteps == 3
\* Wall-clock horizon (ms after start) of the long desktop runs.
MaxElapsedLong == 368

UNDEF == -1
Platforms == {"desktop", "ios", "android"}

VARIABLES
    \* configuration (connectedCallback)
    platform, duration, offset, allowed, iosLag, andLag,
    \* latency state
    audioLatency, lat, audioContext,
    \* wall clock
    now, t0,
    \* the media element
    isMP3, paused, cur, audioDur, buffered, stalled, seekable, recovPlay,
    \* engine fields
    metaReady, lastCurrentTime, stuckCount, looping, lastSeek,
    \* timers and pending continuations
    syncDue, live, loopDue, ensureDue, recovDue, evq, metaWaiters, hpAwait,
    \* environment budget
    env,
    \* observation of the last step (history variables)
    tick, writes, resumeReq, stopped, lastEng, lastCorr, win, prevPos

cfgVars == <<platform, duration, offset, allowed, iosLag, andLag>>
latVars == <<audioLatency, lat, audioContext>>
clockVars == <<now, t0>>
mediaVars == <<isMP3, paused, cur, audioDur, buffered, stalled, seekable,
               recovPlay>>
engVars == <<metaReady, lastCurrentTime, stuckCount, looping, lastSeek>>
timerVars == <<syncDue, live, loopDue, ensureDue, recovDue, evq, metaWaiters,
              hpAwait>>
obsVars == <<tick, writes, resumeReq, stopped, lastEng, lastCorr, win, prevPos>>
vars == <<cfgVars, latVars, clockVars, mediaVars, engVars, timerVars, env, obsVars>>

\* ------------------------------------------------------------------------
\* Arithmetic helpers
\* ------------------------------------------------------------------------
Abs(x) == IF x < 0 THEN -x ELSE x
Min(a, b) == IF a <= b THEN a ELSE b
Max(a, b) == IF a >= b THEN a ELSE b

\* The remainder operator of JavaScript: the sign of the dividend (b > 0).
JsRem(a, b) == IF a >= 0 THEN a % b ELSE -((-a) % b)

\* ------------------------------------------------------------------------
\* Clock model
\* ------------------------------------------------------------------------
\* A variant that forgets the second reduction (negative for negative input).
NormalizeSingleRem(x, len) == JsRem(x, len)

\* ((x % L) + L) % L
Normalize(x, len) == JsRem(JsRem(x, len) + len, len)

\* A variant that applies the Android lag on iOS.
LagSwapped(p) == IF p = "ios" THEN andLag ELSE IF p = "android" THEN iosLag ELSE 0

\* lag()
Lag(p) == IF p = "ios" THEN iosLag ELSE IF p = "android" THEN andLag ELSE 0

\* A variant that leaves the platform seek lag out of the compensation.
TotalLatencyNoLag(l) == l + audioLatency

\* totalLatency of targetTime(): lat + lag() + audioLatency/1000, for a
\* measured latency l
TotalLatencyOf(l) == l + Lag(platform) + audioLatency

\* utc()
Utc == Normalize(now + offset, duration)

\* targetTime(), for a measured latency l
TargetTimeOf(l) == Normalize(now + offset + TotalLatencyOf(l), duration)

\* targetTime()
TargetTime == TargetTimeOf(lat)

\* utc() read when Date.now() is t
UtcAt(t) == Normalize(t + offset, duration)

\* targetTime() read when Date.now() is t
TargetTimeAt(t) == Normalize(t + offset + TotalLatencyOf(lat), duration)

\* 'seek-lag-ios' / 'seek-lag-android' override: +null is 0 (attribute
\* absent), a non-numeric attribute is NaN and keeps the class field.
AttrAbsent == [kind |-> "absent", v |-> 0]
AttrNaN == [kind |-> "nan", v |-> 0]
AttrNum(n) == [kind |-> "num", v |-> n]
LagOverride(default, attr) ==
    IF attr.kind = "absent" THEN 0
    ELSE IF attr.kind = "nan" THEN default ELSE attr.v

\* this.allowed = baseAllowed * (mobile ? 2 : 1)
IsMobile(p) == p \in {"ios", "android"}
AllowedFor(base, p) == base * (IF IsMobile(p) THEN 2 ELSE 1)
TickPeriod(p) == IF IsMobile(p) THEN MobileTickMs ELSE DesktopTickMs

\* ------------------------------------------------------------------------
\* Buffered-range oracle (ranges: sequence of [s, e], ascending)
\* ------------------------------------------------------------------------
\* A variant that excludes the edges of a range.
IsPositionBufferedStrict(ranges, pos) ==
    \E i \in 1..Len(ranges) : pos > ranges[i].s /\ pos < ranges[i].e

\* isPositionBuffered(position)
IsPositionBuffered(ranges, pos) ==
    \E i \in 1..Len(ranges) : pos >= ranges[i].s /\ pos <= ranges[i].e

\* A variant that never takes the direct seek to a buffered target.
RECURSIVE FindSafeFromNoDirect(_, _, _, _)
FindSafeFromNoDirect(ranges, i, safest, tgt) ==
    IF i > Len(ranges) THEN safest
    ELSE IF ranges[i].s > safest /\ ranges[i].s <= tgt
         THEN FindSafeFromNoDirect(ranges, i + 1,
                                   Min(ranges[i].e - SafeMarginMs, tgt), tgt)
         ELSE FindSafeFromNoDirect(ranges, i + 1, safest, tgt)
FindSafeSeekPositionNoDirect(ranges, c, tgt) ==
    IF Len(ranges) = 0 THEN c ELSE FindSafeFromNoDirect(ranges, 1, c, tgt)

\* A variant that stops at the first range starting between the current
\* position and the target.
RECURSIVE FindSafeFromFirstRange(_, _, _, _)
FindSafeFromFirstRange(ranges, i, safest, tgt) ==
    IF i > Len(ranges) THEN safest
    ELSE IF tgt >= ranges[i].s /\ tgt <= ranges[i].e THEN tgt
    ELSE IF ranges[i].s > safest /\ ranges[i].s <= tgt
         THEN Min(ranges[i].e - SafeMarginMs, tgt)
         ELSE FindSafeFromFirstRange(ranges, i + 1, safest, tgt)
FindSafeSeekPositionFirstRange(ranges, c, tgt) ==
    IF Len(ranges) = 0 THEN c ELSE FindSafeFromFirstRange(ranges, 1, c, tgt)

RECURSIVE FindSafeFrom(_, _, _, _)
FindSafeFrom(ranges, i, safest, tgt) ==
    IF i > Len(ranges) THEN safest
    ELSE IF tgt >= ranges[i].s /\ tgt <= ranges[i].e THEN tgt
    ELSE IF ranges[i].s > safest /\ ranges[i].s <= tgt
         THEN FindSafeFrom(ranges, i + 1, Min(ranges[i].e - SafeMarginMs, tgt), tgt)
         ELSE FindSafeFrom(ranges, i + 1, safest, tgt)

\* findSafeSeekPosition(targetTime), c = $audio.currentTime
FindSafeSeekPosition(ranges, c, tgt) ==
    IF Len(ranges) = 0 THEN c ELSE FindSafeFrom(ranges, 1, c, tgt)

\* A variant that only looks at the range holding the current position.
GetContainingEndOnly(ranges, c) ==
    IF \E i \in 1..Len(ranges) : c >= ranges[i].s /\ c <= ranges[i].e
    THEN LET i == CHOOSE j \in 1..Len(ranges) :
                      c >= ranges[j].s /\ c <= ranges[j].e
         IN  ranges[i].e
    ELSE c

RECURSIVE BufferedEndFrom(_, _, _, _)
BufferedEndFrom(ranges, i, furthest, c) ==
    IF i > Len(ranges) THEN furthest
    ELSE IF c >= ranges[i].s /\ c <= ranges[i].e THEN ranges[i].e
    ELSE IF ranges[i].s > c
         THEN BufferedEndFrom(ranges, i + 1, Max(furthest, ranges[i].e), c)
         ELSE BufferedEndFrom(ranges, i + 1, furthest, c)

\* getCurrentBufferedEnd()
GetCurrentBufferedEnd(ranges, c) ==
    IF Len(ranges) = 0 THEN c ELSE BufferedEndFrom(ranges, 1, c, c)

\* ------------------------------------------------------------------------
\* sync(force): the decisions of one invocation
\*   c   = $audio.currentTime read at entry,  tgt = targetTime()
\* ------------------------------------------------------------------------
Falsy(x) == x = UNDEF \/ x = 0

\* line 960: if(!paused && !_lastCurrentTime) _lastCurrentTime = currentTime
Lct1(c) == IF ~paused /\ Falsy(lastCurrentTime) THEN c ELSE lastCurrentTime

\* A variant of the stuck test that applies to every source kind.
StuckBranchAnySource(c) == ~paused /\ Lct1(c) = c /\ c < StuckPosMs

\* line 962
StuckBranch(c) == isMP3 /\ ~paused /\ Lct1(c) = c /\ c < StuckPosMs

\* A variant that recovers one tick early.
StuckExceededEarly(n) == n >= StuckLimit

\* line 970: _stuckCount > 10
StuckExceeded(n) == n > StuckLimit

\* A variant of the loop guard that also fires with no time left.
LoopGuardFiresAtEnd(c) ==
    audioDur # 0 /\ ~looping /\ audioDur - c <= LoopWindowMs /\ audioDur - c >= 0

\* lines 982-984
LoopGuardFires(c) ==
    audioDur # 0 /\ ~looping /\ audioDur - c <= LoopWindowMs /\ audioDur - c > 0

\* A variant of the tolerance test that also corrects a drift equal to the
\* tolerance.
CorrectionWantedAtTolerance(c, tgt, force) == force \/ Abs(c - tgt) >= allowed

\* A variant of the tolerance test that measures the drift around the loop.
CorrectionWantedCircular(c, tgt, force) ==
    force \/ Min(Abs(c - tgt), duration - Abs(c - tgt)) > allowed

\* line 993
CorrectionWanted(c, tgt, force) == force \/ Abs(c - tgt) > allowed

\* A variant of the rate limiter that lets every correction through.
RateLimitAlwaysOpen(t) == TRUE

\* A variant of the rate limiter with a window of 50 ms.
RateLimitShort(t) == lastSeek = 0 \/ t - lastSeek > 50


\* line 997
RateLimitOpen(t) == lastSeek = 0 \/ t - lastSeek > RateLimitMs

\* A variant of the tier selection that tries the buffer-edge jump before the
\* safe advance.
Mp3TierEdgeFirst(c, tgt) ==
    LET safe == FindSafeSeekPosition(buffered, c, tgt)
        cbe  == GetCurrentBufferedEnd(buffered, c)
        fj   == Min(c + ForceJumpMs, tgt)
    IN  IF cbe > c + EdgeAheadMs THEN "b"
        ELSE IF safe > c THEN "a"
        ELSE IF fj > c THEN "c"
        ELSE "none"

\* A variant of the tier selection that takes the buffer-edge jump when the
\* buffered end is exactly 0.5 s ahead.
Mp3TierEdgeAtMargin(c, tgt) ==
    LET safe == FindSafeSeekPosition(buffered, c, tgt)
        cbe  == GetCurrentBufferedEnd(buffered, c)
        fj   == Min(c + ForceJumpMs, tgt)
    IN  IF safe > c THEN "a"
        ELSE IF cbe >= c + EdgeAheadMs THEN "b"
        ELSE IF fj > c THEN "c"
        ELSE "none"

\* lines 1004-1020: which tactic the correction of a progressive source
\* takes: (a) safe advance, (b) buffer-edge jump, (c) force jump, or none
\* when the force jump would not move forward
Mp3Tier(c, tgt) ==
    LET safe == FindSafeSeekPosition(buffered, c, tgt)
        cbe  == GetCurrentBufferedEnd(buffered, c)
        fj   == Min(c + ForceJumpMs, tgt)
    IN  IF safe > c THEN "a"
        ELSE IF cbe > c + EdgeAheadMs THEN "b"
        ELSE IF fj > c THEN "c"
        ELSE "none"

\* A variant of the progressive correction whose force jump is not capped at
\* the target.
Mp3WritesUncappedJump(c, tgt) ==
    LET safe == FindSafeSeekPosition(buffered, c, tgt)
        cbe  == GetCurrentBufferedEnd(buffered, c)
        tier == Mp3Tier(c, tgt)
    IN  CASE tier = "a" -> <<[pos |-> safe, kind |-> "drift"]>>
          [] tier = "b" -> <<[pos |-> Min(cbe - EdgeBackoffMs, tgt), kind |-> "drift"]>>
          [] tier = "c" -> <<[pos |-> c + ForceJumpMs, kind |-> "drift"]>>
          [] OTHER -> <<>>

\* lines 999-1020: the position written by the progressive tactic, if any
Mp3Writes(c, tgt) ==
    LET safe == FindSafeSeekPosition(buffered, c, tgt)
        cbe  == GetCurrentBufferedEnd(buffered, c)
        fj   == Min(c + ForceJumpMs, tgt)
        tier == Mp3Tier(c, tgt)
    IN  CASE tier = "a" -> <<[pos |-> safe, kind |-> "drift"]>>
          [] tier = "b" -> <<[pos |-> Min(cbe - EdgeBackoffMs, tgt), kind |-> "drift"]>>
          [] tier = "c" -> <<[pos |-> fj, kind |-> "drift"]>>
          [] OTHER -> <<>>

\* A variant that applies the progressive tactic to every source kind.
DriftWritesAlwaysProgressive(c, tgt, force, t) ==
    IF CorrectionWanted(c, tgt, force) /\ RateLimitOpen(t)
    THEN Mp3Writes(c, tgt)
    ELSE <<>>

\* lines 992-1031: the writes of the correction step
DriftWrites(c, tgt, force, t) ==
    IF CorrectionWanted(c, tgt, force) /\ RateLimitOpen(t)
    THEN IF isMP3 THEN Mp3Writes(c, tgt)
         ELSE <<[pos |-> tgt, kind |-> "drift"]>>
    ELSE <<>>

\* lines 981-990: the write of the loop-boundary guard
LoopWrites(c, tgt) ==
    IF LoopGuardFires(c) THEN <<[pos |-> tgt, kind |-> "loop"]>> ELSE <<>>

\* A variant of sync without the return of line 988.
SyncWritesNoReturn(c, tgt, force, t) ==
    IF StuckBranch(c) THEN <<>>
    ELSE LoopWrites(c, tgt) \o DriftWrites(c, tgt, force, t)

\* sync(): every write of $audio.currentTime of one invocation, in order
SyncWrites(c, tgt, force, t) ==
    IF StuckBranch(c) THEN <<>>
    ELSE IF LoopGuardFires(c) THEN LoopWrites(c, tgt)
    ELSE DriftWrites(c, tgt, force, t)

\* The branch one invocation of sync takes.
SyncBranch(c, tgt, force, t) ==
    IF StuckBranch(c) THEN "stuck"
    ELSE IF LoopGuardFires(c) THEN "loop"
    ELSE IF ~CorrectionWanted(c, tgt, force) THEN "insync"
    ELSE IF RateLimitOpen(t) THEN "corr"
    ELSE "suppressed"

\* ------------------------------------------------------------------------
\* Initial state: the component after connectedCallback, source assigned,
\* nothing played yet
\* ------------------------------------------------------------------------
NoTick == [src |-> "none"]
NoSeek == [at |-> 0, kind |-> "none", ok |-> TRUE]
MainPlatforms == {"desktop", "android"}
StartConfigs == {[dur |-> 2050, phase |-> 1850], [dur |-> 4000, phase |-> 0]}
LatSamples == {20}
RangeSets ==
    { <<>>,
      <<[s |-> 0, e |-> 1200]>>,
      <<[s |-> 0, e |-> 1200], [s |-> 1500, e |-> 3000]>> }

EngineInit ==
    /\ metaReady = FALSE
    /\ lastCurrentTime = UNDEF
    /\ stuckCount = 0
    /\ looping = FALSE
    /\ lastSeek = 0
    /\ syncDue = 0 /\ live = 0 /\ loopDue = 0 /\ ensureDue = {} /\ recovDue = {}
    /\ evq = <<>> /\ metaWaiters = 0 /\ hpAwait = FALSE
    /\ paused = TRUE /\ cur = 0 /\ audioDur = 0 /\ buffered = <<>>
    /\ stalled = FALSE /\ recovPlay = UNDEF
    /\ lat = 0 /\ audioContext = "none"
    /\ env = 0
    /\ tick = NoTick /\ writes = <<>> /\ resumeReq = FALSE /\ stopped = FALSE
    /\ lastEng = NoSeek /\ lastCorr = 0 /\ win = <<>> /\ prevPos = UNDEF

Init ==
    /\ platform \in MainPlatforms
    /\ seekable = TRUE
    /\ \E sc \in StartConfigs : duration = sc.dur /\ t0 = sc.dur + sc.phase
    /\ offset = 0
    /\ allowed = AllowedFor(DefaultAllowedMs, platform)
    /\ iosLag = LagOverride(IOS_LAG_DEFAULT, AttrAbsent)
    /\ andLag = LagOverride(AND_LAG_DEFAULT, AttrAbsent)
    /\ audioLatency = 0
    /\ now = t0
    /\ isMP3 \in BOOLEAN
    /\ EngineInit

\* ------------------------------------------------------------------------
\* History bookkeeping
\* ------------------------------------------------------------------------
LastN(q, n) == IF Len(q) > n THEN SubSeq(q, Len(q) - n + 1, Len(q)) ELSE q

\* Each engine write of the step, with the time since the engine write
\* before it and that write's kind (UNDEF: there was none).
RECURSIVE Gaps(_, _)
Gaps(ws, prev) ==
    IF ws = <<>> THEN <<>>
    ELSE <<[pos |-> Head(ws).pos, kind |-> Head(ws).kind,
            gap |-> IF prev.at = 0 THEN UNDEF ELSE now - prev.at,
            prevKind |-> prev.kind]>>
         \o Gaps(Tail(ws), [at |-> now, kind |-> Head(ws).kind, ok |-> seekable])
LastWrite(ws, prev) ==
    IF ws = <<>> THEN prev
    ELSE [at |-> now, kind |-> ws[Len(ws)].kind, ok |-> seekable]

Quiet ==
    /\ tick' = NoTick /\ writes' = <<>> /\ resumeReq' = FALSE
    /\ UNCHANGED <<lastEng, lastCorr, win, prevPos>>

\* A variant that records the time of a correction only when a position
\* was written.
LastSeekAfterWrite(branch, ws) ==
    IF branch = "corr" /\ ws # <<>> THEN now ELSE lastSeek

\* line 1029: _lastSeek = now, at the end of every correction step that
\* passed the rate limiter
LastSeekAfter(branch, ws) == IF branch = "corr" THEN now ELSE lastSeek

\* ------------------------------------------------------------------------
\* sync(force) as a step.  c: $audio.currentTime at entry, l: this.lat at
\* entry, q: the pending media events at entry, src: who called.
\* Frame: everything sync and recoverFromStuck can touch.
\* ------------------------------------------------------------------------
Sync(c, l, q, force, src) ==
    LET tgt     == TargetTimeOf(l)
        branch  == SyncBranch(c, tgt, force, now)
        stuck   == branch = "stuck"
        recover == stuck /\ StuckExceeded(stuckCount + 1)
        ws      == SyncWrites(c, tgt, force, now)
        qual    == isMP3 /\ ~paused /\ c < StuckPosMs /\ prevPos \in {UNDEF, c}
    IN  /\ lastCurrentTime' = IF stuck THEN Lct1(c) ELSE c
        /\ stuckCount' = IF stuck /\ ~recover THEN stuckCount + 1 ELSE 0
        /\ looping' = (looping \/ branch = "loop")
        /\ loopDue' = IF branch = "loop" THEN now + LoopHoldMs ELSE loopDue
        /\ lastSeek' = LastSeekAfter(branch, ws)
        /\ ensureDue' = IF branch = "corr" /\ isMP3 /\ ws # <<>>
                        THEN ensureDue \cup {now + EnsureDelayMs} ELSE ensureDue
        \* recoverFromStuck: load() then play()
        /\ cur' = IF recover THEN 0
                  ELSE IF ws # <<>> /\ seekable THEN ws[Len(ws)].pos ELSE c
        /\ audioDur' = IF recover THEN 0 ELSE audioDur
        /\ buffered' = IF recover THEN <<>> ELSE buffered
        /\ recovPlay' = IF recover THEN tgt ELSE recovPlay
        /\ evq' = IF recover THEN Append(q, "play") ELSE q
        /\ tick' = [src |-> src, force |-> force, c |-> c, tgt |-> tgt,
                    branch |-> branch, recover |-> recover,
                    wasLooping |-> looping, dur |-> audioDur,
                    count |-> stuckCount, lct |-> lastCurrentTime,
                    ctx |-> audioContext,
                    timerOn |-> syncDue # 0,
                    prevRefused |-> (lastEng.kind = "drift" /\ ~lastEng.ok),
                    corrGap |-> IF lastCorr = 0 THEN UNDEF ELSE now - lastCorr]
        /\ writes' = Gaps(ws, lastEng)
        /\ resumeReq' = FALSE
        /\ lastEng' = LastWrite(ws, lastEng)
        /\ lastCorr' = IF branch = "corr" THEN now ELSE lastCorr
        /\ win' = IF qual THEN LastN(Append(win, recover), StuckLimit + 1) ELSE <<>>
        /\ prevPos' = c

\* clearInterval(this._syncInterval) inside stopSync(): the interval behind
\* the handle, if the handle is set, stops being live
Cleared == IF syncDue # 0 THEN 1 ELSE 0

\* A variant of startSync that creates the new interval without clearing the
\* previous one.
StartSyncNoCancel ==
    /\ syncDue' = now + TickPeriod(platform)
    /\ live' = live + 1

\* ------------------------------------------------------------------------
\* Timers
\* ------------------------------------------------------------------------
\* startSync(): stopSync() then setInterval(sync, mobile ? 100 : 16)
StartSync ==
    /\ syncDue' = now + TickPeriod(platform)
    /\ live' = live - Cleared + 1

\* stopSync()
StopSync ==
    /\ syncDue' = 0
    /\ live' = live - Cleared

\* the interval callback: sync()
TickFire ==
    /\ syncDue # 0 /\ syncDue = now
    /\ Sync(cur, lat, evq, FALSE, "timer")
    /\ syncDue' = now + TickPeriod(platform)
    /\ UNCHANGED <<cfgVars, latVars, clockVars, isMP3, paused, stalled, seekable,
                   metaReady, live, recovDue, metaWaiters, hpAwait, env, stopped>>

\* A variant of the loop timer whose callback leaves _looping set.
LoopTimerFireKeepsFlag ==
    /\ loopDue # 0 /\ loopDue = now
    /\ loopDue' = 0
    /\ Quiet
    /\ UNCHANGED <<cfgVars, latVars, clockVars, mediaVars, metaReady,
                   lastCurrentTime, stuckCount, looping, lastSeek, syncDue, live,
                   ensureDue, recovDue, evq, metaWaiters, hpAwait, env, stopped>>

\* setTimeout(() => this._looping = false, 200)
LoopTimerFire ==
    /\ loopDue # 0 /\ loopDue = now
    /\ looping' = FALSE
    /\ loopDue' = 0
    /\ Quiet
    /\ UNCHANGED <<cfgVars, latVars, clockVars, mediaVars, metaReady,
                   lastCurrentTime, stuckCount, lastSeek, syncDue, live, ensureDue,
                   recovDue, evq, metaWaiters, hpAwait, env, stopped>>

\* A variant of the deferred check that calls play() whether or not the
\* element is paused.
EnsureFireAlways ==
    /\ now \in ensureDue
    /\ ensureDue' = ensureDue \ {now}
    /\ resumeReq' = TRUE
    /\ \E ok \in BOOLEAN :
         IF ok /\ paused THEN paused' = FALSE /\ evq' = Append(evq, "play")
                         ELSE UNCHANGED <<paused, evq>>
    /\ tick' = NoTick /\ writes' = <<>>
    /\ UNCHANGED <<lastEng, lastCorr, win, prevPos>>
    /\ UNCHANGED <<cfgVars, latVars, clockVars, isMP3, cur, audioDur, buffered,
                   stalled, seekable, recovPlay, engVars, syncDue, live, loopDue, recovDue,
                   metaWaiters, hpAwait, env, stopped>>

\* the deferred check of ensureMP3Playback(): play() when paused; the
\* request may be refused by the platform (the catch swallows it)
EnsureFire ==
    /\ now \in ensureDue
    /\ ensureDue' = ensureDue \ {now}
    /\ IF paused /\ isMP3
       THEN /\ resumeReq' = TRUE
            /\ \E ok \in BOOLEAN :
                 IF ok THEN paused' = FALSE /\ evq' = Append(evq, "play")
                       ELSE UNCHANGED <<paused, evq>>
       ELSE /\ resumeReq' = FALSE
            /\ UNCHANGED <<paused, evq>>
    /\ tick' = NoTick /\ writes' = <<>>
    /\ UNCHANGED <<lastEng, lastCorr, win, prevPos>>
    /\ UNCHANGED <<cfgVars, latVars, clockVars, isMP3, cur, audioDur, buffered,
                   stalled, seekable, recovPlay, engVars, syncDue, live, loopDue, recovDue,
                   metaWaiters, hpAwait, env, stopped>>

\* recoverFromStuck: the play() promise resolves, the 100 ms timer starts
RecovResolve ==
    /\ recovPlay # UNDEF
    /\ audioDur # 0
    /\ recovDue' = recovDue \cup {[due |-> now + RecoverDelayMs, tgt |-> recovPlay]}
    /\ recovPlay' = UNDEF
    /\ Quiet
    /\ UNCHANGED <<cfgVars, latVars, clockVars, isMP3, paused, cur, audioDur,
                   buffered, stalled, seekable, engVars, syncDue, live, loopDue, ensureDue,
                   evq, metaWaiters, hpAwait, env, stopped>>

\* recoverFromStuck: the play() promise rejects (catch: nothing happens)
RecovReject ==
    /\ recovPlay # UNDEF
    /\ recovPlay' = UNDEF
    /\ Quiet
    /\ UNCHANGED <<cfgVars, latVars, clockVars, isMP3, paused, cur, audioDur,
                   buffered, stalled, seekable, engVars, timerVars, env, stopped>>

\* A variant of the deferred recovery seek that writes the safe position
\* even when it is 0.
RecovFireAlwaysSeeks ==
    \E r \in recovDue :
      /\ r.due = now
      /\ recovDue' = recovDue \ {r}
      /\ LET safe == FindSafeSeekPosition(buffered, cur, r.tgt)
             ws   == <<[pos |-> safe, kind |-> "recovery"]>>
         IN  /\ cur' = IF seekable THEN safe ELSE cur
             /\ writes' = Gaps(ws, lastEng)
             /\ lastEng' = LastWrite(ws, lastEng)
      /\ tick' = NoTick /\ resumeReq' = FALSE
      /\ UNCHANGED <<lastCorr, win, prevPos>>
      /\ UNCHANGED <<cfgVars, latVars, clockVars, isMP3, paused, audioDur,
                     buffered, stalled, seekable, recovPlay, engVars, syncDue, live, loopDue,
                     ensureDue, evq, metaWaiters, hpAwait, env, stopped>>

\* recoverFromStuck: the deferred seek to findSafeSeekPosition(targetTime)
RecovFire ==
    \E r \in recovDue :
      /\ r.due = now
      /\ recovDue' = recovDue \ {r}
      /\ LET safe == FindSafeSeekPosition(buffered, cur, r.tgt)
             ws   == IF safe > 0 THEN <<[pos |-> safe, kind |-> "recovery"]>>
                     ELSE <<>>
         IN  /\ cur' = IF safe > 0 /\ seekable THEN safe ELSE cur
             /\ writes' = Gaps(ws, lastEng)
             /\ lastEng' = LastWrite(ws, lastEng)
      /\ tick' = NoTick /\ resumeReq' = FALSE
      /\ UNCHANGED <<lastCorr, win, prevPos>>
      /\ UNCHANGED <<cfgVars, latVars, clockVars, isMP3, paused, audioDur,
                     buffered, stalled, seekable, recovPlay, engVars, syncDue, live, loopDue,
                     ensureDue, evq, metaWaiters, hpAwait, env, stopped>>

\* ------------------------------------------------------------------------
\* Media events: 'play', 'pause', 'loadedmetadata'
\* ------------------------------------------------------------------------
\* handlePlay() before the metadata is ready: wait for 'loadedmetadata'
HandlePlayWaitMeta ==
    /\ evq # <<>> /\ Head(evq) = "play"
    /\ ~metaReady
    /\ metaWaiters' = metaWaiters + 1
    /\ evq' = Tail(evq)
    /\ Quiet
    /\ UNCHANGED <<cfgVars, latVars, clockVars, mediaVars, engVars, syncDue, live,
                   loopDue, ensureDue, recovDue, hpAwait, env, stopped>>

\* A variant of handlePlay that measures again although the context exists
\* (the platform reports no latency figures this time).
HandlePlayNowRemeasuring ==
    /\ evq # <<>> /\ Head(evq) = "play"
    /\ metaReady /\ audioContext # "none"
    /\ lat' = 0
    /\ Sync(cur, 0, Tail(evq), TRUE, "play")
    /\ StartSync
    /\ UNCHANGED <<cfgVars, audioLatency, audioContext, clockVars, isMP3,
                   paused, stalled, seekable, metaReady, recovDue, metaWaiters,
                   hpAwait, env, stopped>>

\* A variant of handlePlay in which the failure to create the context
\* escapes initAudioContext and ends the handler.
HandlePlayNoContextThrows ==
    /\ evq # <<>> /\ Head(evq) = "play"
    /\ metaReady /\ audioContext = "none"
    /\ audioContext' = "unsupported"
    /\ evq' = Tail(evq)
    /\ Quiet
    /\ UNCHANGED <<cfgVars, audioLatency, lat, clockVars, mediaVars, engVars,
                   syncDue, live, loopDue, ensureDue, recovDue, metaWaiters, hpAwait,
                   env, stopped>>

\* handlePlay(): initAudioContext() returns at once (the context exists
\* already, or an earlier attempt found the platform has none and this one
\* fails the same way), then sync(true) and startSync()
HandlePlayNow ==
    /\ evq # <<>> /\ Head(evq) = "play"
    /\ metaReady /\ audioContext # "none"
    /\ Sync(cur, lat, Tail(evq), TRUE, "play")
    /\ StartSync
    /\ UNCHANGED <<cfgVars, latVars, clockVars, isMP3, paused, stalled, seekable,
                   metaReady, recovDue, metaWaiters, hpAwait, env, stopped>>

\* handlePlay(): the platform has no AudioContext; the constructor throws,
\* the catch of initAudioContext() leaves this.audioContext null and lat 0
HandlePlayNoContext ==
    /\ evq # <<>> /\ Head(evq) = "play"
    /\ metaReady /\ audioContext = "none"
    /\ audioContext' = "unsupported"
    /\ Sync(cur, lat, Tail(evq), TRUE, "play")
    /\ StartSync
    /\ UNCHANGED <<cfgVars, audioLatency, lat, clockVars, isMP3, paused, stalled, seekable,
                   metaReady, recovDue, metaWaiters, hpAwait, env, stopped>>

\* handlePlay(): initAudioContext() creates a running context and
\* measureLatency() reads baseLatency + outputLatency
HandlePlayMeasure ==
    /\ evq # <<>> /\ Head(evq) = "play"
    /\ metaReady /\ audioContext = "none"
    /\ \E l \in LatSamples :
         /\ lat' = l
         /\ Sync(cur, l, Tail(evq), TRUE, "play")
    /\ audioContext' = "running"
    /\ StartSync
    /\ UNCHANGED <<cfgVars, audioLatency, clockVars, isMP3, paused, stalled, seekable,
                   metaReady, recovDue, metaWaiters, hpAwait, env, stopped>>

\* handlePlay(): the new context is suspended, measureLatency() awaits
\* audioContext.resume(); handlePlay stays suspended at its await
HandlePlaySuspend ==
    /\ evq # <<>> /\ Head(evq) = "play"
    /\ metaReady /\ audioContext = "none"
    /\ audioContext' = "suspended"
    /\ hpAwait' = TRUE
    /\ evq' = Tail(evq)
    /\ Quiet
    /\ UNCHANGED <<cfgVars, audioLatency, lat, clockVars, mediaVars, engVars,
                   syncDue, live, loopDue, ensureDue, recovDue, metaWaiters, env,
                   stopped>>

\* audioContext.resume() settles: measureLatency() finishes (or its catch
\* runs), then handlePlay continues with sync(true) and startSync()
CtxResumed ==
    /\ hpAwait
    /\ hpAwait' = FALSE
    /\ \E ok \in BOOLEAN : \E l \in LatSamples :
         /\ lat' = IF ok THEN l ELSE lat
         /\ audioContext' = IF ok THEN "running" ELSE audioContext
         /\ Sync(cur, lat', evq, TRUE, "play")
    /\ StartSync
    /\ UNCHANGED <<cfgVars, audioLatency, clockVars, isMP3, paused, stalled, seekable,
                   metaReady, recovDue, metaWaiters, env, stopped>>

\* handlePause(): stopSync()
HandlePause ==
    /\ evq # <<>> /\ Head(evq) = "pause"
    /\ evq' = Tail(evq)
    /\ StopSync
    /\ stopped' = TRUE
    /\ Quiet
    /\ UNCHANGED <<cfgVars, latVars, clockVars, mediaVars, engVars, loopDue,
                   ensureDue, recovDue, metaWaiters, hpAwait, env>>

\* 'loadedmetadata': _metaReady = true, then the once-listeners registered
\* by handlePlay call handlePlay again
LoadedMetadata ==
    /\ audioDur = 0
    /\ audioDur' = duration
    /\ metaReady' = TRUE
    /\ evq' = [i \in 1..metaWaiters |-> "play"] \o evq
    /\ metaWaiters' = 0
    /\ Quiet
    /\ UNCHANGED <<cfgVars, latVars, clockVars, isMP3, paused, cur, buffered,
                   stalled, seekable, recovPlay, lastCurrentTime, stuckCount, looping,
                   lastSeek, syncDue, live, loopDue, ensureDue, recovDue, hpAwait,
                   env, stopped>>

\* ------------------------------------------------------------------------
\* The user and the media source
\* ------------------------------------------------------------------------
\* $audio.play() from the frame, the keyboard or the media session
UserPlay ==
    /\ paused /\ env < MaxEnv /\ Len(evq) < MaxEvq
    /\ paused' = FALSE
    /\ evq' = Append(evq, "play")
    /\ stopped' = FALSE
    /\ env' = env + 1
    /\ Quiet
    /\ UNCHANGED <<cfgVars, latVars, clockVars, isMP3, cur, audioDur, buffered,
                   stalled, seekable, recovPlay, engVars, syncDue, live, loopDue, ensureDue,
                   recovDue, metaWaiters, hpAwait>>

\* $audio.pause(): pending play() promises are rejected
UserPause ==
    /\ ~paused /\ env < MaxEnv /\ Len(evq) < MaxEvq
    /\ paused' = TRUE
    /\ evq' = Append(evq, "pause")
    /\ recovPlay' = UNDEF
    /\ env' = env + 1
    /\ tick' = NoTick /\ writes' = <<>> /\ resumeReq' = FALSE /\ win' = <<>>
    /\ UNCHANGED <<lastEng, lastCorr, prevPos>>
    /\ UNCHANGED <<cfgVars, latVars, clockVars, isMP3, cur, audioDur, buffered,
                   stalled, seekable, engVars, syncDue, live, loopDue, ensureDue, recovDue,
                   metaWaiters, hpAwait, stopped>>

\* seek(offset): clamp into [0, duration], then sync(true) unless paused
UserSeek ==
    /\ env < MaxEnv
    /\ env' = env + 1
    /\ \E off \in {-SeekOffsetMs, SeekOffsetMs} :
         LET c1 == IF seekable THEN Max(0, Min(audioDur, cur + off)) ELSE cur
         IN  IF ~paused
             THEN Sync(c1, lat, evq, TRUE, "seek")
             ELSE /\ cur' = c1
                  /\ Quiet
                  /\ UNCHANGED <<audioDur, buffered, recovPlay, evq, engVars,
                                 loopDue, ensureDue>>
    /\ UNCHANGED <<cfgVars, latVars, clockVars, isMP3, paused, stalled, seekable,
                   metaReady, syncDue, live, recovDue, metaWaiters, hpAwait, stopped>>

\* playback stops advancing (buffer underrun) / advances again
StallToggle ==
    /\ env < MaxEnv /\ ~paused
    /\ env' = env + 1
    /\ stalled' = ~stalled
    /\ Quiet
    /\ UNCHANGED <<cfgVars, latVars, clockVars, isMP3, paused, cur, audioDur,
                   buffered, seekable, recovPlay, engVars, timerVars, stopped>>

\* the download makes $audio.buffered change
BufferChange ==
    /\ env < MaxEnv /\ audioDur # 0
    /\ env' = env + 1
    /\ \E b \in RangeSets \ {buffered} : buffered' = b
    /\ Quiet
    /\ UNCHANGED <<cfgVars, latVars, clockVars, isMP3, paused, cur, audioDur,
                   stalled, seekable, recovPlay, engVars, timerVars, stopped>>

\* ------------------------------------------------------------------------
\* Passage of time up to the next timer
\* ------------------------------------------------------------------------
Dues ==
    (IF syncDue # 0 THEN {syncDue} ELSE {})
    \cup (IF loopDue # 0 THEN {loopDue} ELSE {})
    \cup ensureDue \cup {r.due : r \in recovDue}

SetMin(S) == CHOOSE x \in S : \A y \in S : x <= y

\* the <audio loop> element advances with the wall clock and wraps at its end
Played(c, d) ==
    IF paused \/ stalled \/ audioDur = 0 THEN c
    ELSE IF c + d >= audioDur THEN c + d - audioDur ELSE c + d

Advance ==
    /\ evq = <<>>
    /\ \A d \in Dues : d > now
    /\ now - t0 < (IF IsMobile(platform) THEN MaxElapsedMobile ELSE MaxElapsedDesktop)
    /\ LET step == IF Dues = {} THEN IdleStepMs ELSE SetMin(Dues) - now
       IN  /\ now' = now + step
           /\ cur' = Played(cur, step)
    /\ Quiet
    /\ UNCHANGED <<cfgVars, latVars, t0, isMP3, paused, audioDur, buffered,
                   stalled, seekable, recovPlay, engVars, timerVars, env, stopped>>

Next ==
    \/ TickFire \/ LoopTimerFire \/ EnsureFire
    \/ RecovResolve \/ RecovReject \/ RecovFire
    \/ HandlePlayWaitMeta \/ HandlePlayNow \/ HandlePlayNoContext
    \/ HandlePlayMeasure
    \/ HandlePlaySuspend \/ CtxResumed \/ HandlePause \/ LoadedMetadata
    \/ UserPlay \/ UserPause \/ UserSeek \/ StallToggle \/ BufferChange
    \/ Advance

Spec == Init /\ [][Next]_vars

\* ------------------------------------------------------------------------
\* The engine on a progressive source on desktop, followed long enough for
\* two stuck episodes (2 x 11 ticks of 16 ms)
\* ------------------------------------------------------------------------
LongInit == Init /\ platform = "desktop" /\ isMP3

\* passage of time up to the next timer, over the longer horizon
AdvanceLong ==
    /\ evq = <<>>
    /\ \A d \in Dues : d > now
    /\ now - t0 < MaxElapsedLong
    /\ LET step == IF Dues = {} THEN IdleStepMs ELSE SetMin(Dues) - now
       IN  /\ now' = now + step
           /\ cur' = Played(cur, step)
    /\ Quiet
    /\ UNCHANGED <<cfgVars, latVars, t0, isMP3, paused, audioDur, buffered,
                   stalled, seekable, recovPlay, engVars, timerVars, env, stopped>>

\* the timers, the recovery chain, the start of playback and stalls
LongNext ==
    \/ TickFire \/ LoopTimerFire \/ EnsureFire
    \/ RecovResolve \/ RecovReject \/ RecovFire
    \/ HandlePlayWaitMeta \/ HandlePlayNow \/ HandlePlayNoContext
    \/ HandlePlayMeasure \/ LoadedMetadata
    \/ UserPlay \/ StallToggle
    \/ AdvanceLong

LongSpec == LongInit /\ [][LongNext]_vars

\* ------------------------------------------------------------------------
\* The engine on a source that may ignore a write of currentTime (the
\* position is outside $audio.seekable): the assignment returns normally and
\* the position stays where it was
\* ------------------------------------------------------------------------
RefusalInit ==
    /\ platform \in MainPlatforms
    /\ \E sc \in StartConfigs : duration = sc.dur /\ t0 = sc.dur + sc.phase
    /\ offset = 0
    /\ allowed = AllowedFor(DefaultAllowedMs, platform)
    /\ iosLag = LagOverride(IOS_LAG_DEFAULT, AttrAbsent)
    /\ andLag = LagOverride(AND_LAG_DEFAULT, AttrAbsent)
    /\ audioLatency = 0
    /\ now = t0
    /\ isMP3 \in BOOLEAN
    /\ seekable \in BOOLEAN
    /\ EngineInit

\* the source starts or stops honouring position writes
SeekableToggle ==
    /\ env < MaxEnv
    /\ env' = env + 1
    /\ seekable' = ~seekable
    /\ Quiet
    /\ UNCHANGED <<cfgVars, latVars, clockVars, isMP3, paused, cur, audioDur,
                   buffered, stalled, recovPlay, engVars, timerVars, stopped>>

\* the timers, the handlers and the user; stalls, buffer changes and the
\* recovery chain do not bear on the rate limiter and stay with Spec
RefusalNext ==
    \/ TickFire \/ LoopTimerFire \/ EnsureFire
    \/ HandlePlayWaitMeta \/ HandlePlayNow \/ HandlePlayNoContext
    \/ HandlePlayMeasure
    \/ HandlePlaySuspend \/ CtxResumed \/ HandlePause \/ LoadedMetadata
    \/ UserPlay \/ UserPause \/ UserSeek \/ SeekableToggle
    \/ Advance

RefusalSpec == RefusalInit /\ [][RefusalNext]_vars

\* ------------------------------------------------------------------------
\* The clock model on its own: configuration and latency inputs drawn from
\* bounded sets, the wall clock read at several instants
\* ------------------------------------------------------------------------
ClockDurations == {DefaultDurationMs, 120000}
ClockOffsets == {0, -2000000, 2500}
ClockStarts == {1, 905200, 1799990}
ClockSteps == {10, DefaultDurationMs}
LagAttrs == {AttrAbsent, AttrNaN, AttrNum(250), AttrNum(-50)}
UserLatencies == {0, 50, -1000000}
MeasuredLatencies == {0, 50}

ClockInit ==
    /\ platform \in Platforms
    /\ seekable = TRUE
    /\ duration \in ClockDurations
    /\ offset \in ClockOffsets
    /\ allowed = AllowedFor(DefaultAllowedMs, platform)
    /\ \E a \in LagAttrs : iosLag = LagOverride(IOS_LAG_DEFAULT, a)
    /\ \E a \in LagAttrs : andLag = LagOverride(AND_LAG_DEFAULT, a)
    /\ audioLatency \in {0, 50}
    /\ t0 \in ClockStarts
    /\ now = t0
    /\ isMP3 = FALSE
    /\ EngineInit

ClockFrame ==
    UNCHANGED <<cfgVars, t0, mediaVars, engVars, timerVars, stopped, writes,
                resumeReq, lastEng, lastCorr, win, prevPos>>

\* the wall clock moves on
ClockAdvance ==
    /\ env < MaxClockSteps
    /\ env' = env + 1
    /\ \E d \in ClockSteps : now' = now + d
    /\ tick' = NoTick
    /\ UNCHANGED latVars
    /\ ClockFrame

\* attributeChangedCallback('audio-latency'): audioLatency = +newValue || 0
SetAudioLatency ==
    /\ env < MaxClockSteps
    /\ env' = env + 1
    /\ \E v \in UserLatencies \ {audioLatency} : audioLatency' = v
    /\ tick' = NoTick
    /\ UNCHANGED <<lat, audioContext, now>>
    /\ ClockFrame

\* measureLatency(): lat = baseLatency + outputLatency
MeasureLatency ==
    /\ audioContext = "none"
    /\ audioContext' = "running"
    /\ \E l \in MeasuredLatencies : lat' = l
    /\ tick' = NoTick
    /\ UNCHANGED <<audioLatency, now, env>>
    /\ ClockFrame

\* utc() and targetTime() are read now and one loop duration later
ClockRead ==
    /\ tick = NoTick
    /\ tick' = [src |-> "clock", tgt |-> TargetTime, utc |-> Utc,
                tgtL |-> TargetTimeAt(now + duration),
                utcL |-> UtcAt(now + duration)]
    /\ UNCHANGED <<latVars, now, env>>
    /\ ClockFrame

ClockNext == ClockAdvance \/ SetAudioLatency \/ MeasureLatency \/ ClockRead

ClockSpec == ClockInit /\ [][ClockNext]_vars

\* ------------------------------------------------------------------------
\* The buffered-range oracle on its own: $audio.buffered, the current
\* position and the target drawn from bounded sets, the three functions read
\* ------------------------------------------------------------------------
OracleRanges ==
    { <<>>,
      <<[s |-> 0, e |-> 1200]>>,
      <<[s |-> 0, e |-> 1200], [s |-> 1500, e |-> 3000]>>,
      <<[s |-> 1500, e |-> 1800]>>,
      <<[s |-> 1000, e |-> 2000], [s |-> 2500, e |-> 2700],
        [s |-> 4000, e |-> 6000]>>,
      <<[s |-> 300, e |-> 400], [s |-> 2000, e |-> 5000]>>,
      <<[s |-> 0, e |-> 12000], [s |-> 15000, e |-> 20000]>> }
OraclePositions == {0, 500, 1200, 1300, 2600, 3500, 10000}
OracleTargets == {0, 1200, 1350, 1500, 1800, 2600, 3000, 5000, 6000, 7000, 18000}

OracleInit ==
    /\ platform = "desktop"
    /\ seekable = TRUE
    /\ duration = DefaultDurationMs
    /\ offset = 0
    /\ allowed = AllowedFor(DefaultAllowedMs, platform)
    /\ iosLag = LagOverride(IOS_LAG_DEFAULT, AttrAbsent)
    /\ andLag = LagOverride(AND_LAG_DEFAULT, AttrAbsent)
    /\ audioLatency = 0
    /\ t0 = 1
    /\ now = t0
    /\ isMP3 = TRUE
    /\ EngineInit

OracleFrame ==
    UNCHANGED <<cfgVars, latVars, clockVars, isMP3, paused, audioDur, stalled, seekable,
                recovPlay, engVars, timerVars, writes, resumeReq, stopped,
                lastEng, lastCorr, win, prevPos>>

\* the download changes $audio.buffered
OracleLoad ==
    /\ env < MaxOracleSteps
    /\ env' = env + 1
    /\ \E b \in OracleRanges \ {buffered} : buffered' = b
    /\ tick' = NoTick
    /\ UNCHANGED cur
    /\ OracleFrame

\* the playback position moves
OracleMove ==
    /\ env < MaxOracleSteps
    /\ env' = env + 1
    /\ \E c \in OraclePositions \ {cur} : cur' = c
    /\ tick' = NoTick
    /\ UNCHANGED buffered
    /\ OracleFrame

\* isPositionBuffered, findSafeSeekPosition and getCurrentBufferedEnd are read
OracleAsk ==
    /\ tick = NoTick
    /\ \E tgt \in OracleTargets :
         LET safe == FindSafeSeekPosition(buffered, cur, tgt)
         IN  tick' = [src |-> "oracle", c |-> cur, tgt |-> tgt,
                      hit |-> IsPositionBuffered(buffered, tgt),
                      safe |-> safe,
                      safeHit |-> IsPositionBuffered(buffered, safe),
                      end |-> GetCurrentBufferedEnd(buffered, cur)]
    /\ UNCHANGED <<buffered, cur, env>>
    /\ OracleFrame

\* the correction step of sync for a progressive source, lines 1001-1020:
\* the tier is chosen and the position it computes is written
OracleCorrect ==
    /\ tick = NoTick
    /\ \E tgt \in OracleTargets :
         LET ws == Mp3Writes(cur, tgt)
         IN  /\ tick' = [src |-> "tier", c |-> cur, tgt |-> tgt,
                         tier |-> Mp3Tier(cur, tgt),
                         safe |-> FindSafeSeekPosition(buffered, cur, tgt),
                         end |-> GetCurrentBufferedEnd(buffered, cur),
                         ws |-> ws]
             /\ cur' = IF ws # <<>> THEN ws[Len(ws)].pos ELSE cur
    /\ UNCHANGED <<buffered, env>>
    /\ OracleFrame

OracleNext == OracleLoad \/ OracleMove \/ OracleAsk \/ OracleCorrect

OracleSpec == OracleInit /\ [][OracleNext]_vars

\* ------------------------------------------------------------------------
\* Properties
\* ------------------------------------------------------------------------
IsTick == tick.src \in {"timer", "play", "seek"}
DriftWritten == \E i \in 1..Len(writes) : writes[i].kind = "drift"

\* C1: one invocation of sync writes the playback position at most once,
\* whichever guard or tactic applies.
C1_AtMostOneWritePerTick == IsTick => Len(writes) <= 1

C1_Witness ==
    /\ IsTick /\ tick.force /\ tick.branch = "loop"
    /\ Len(writes) = 1 /\ writes[1].kind = "loop"

C3_CorrectionsRateLimited ==
    IsTick =>
        /\ tick.branch = "corr" => (tick.corrGap = UNDEF \/ tick.corrGap > RateLimitMs)
        /\ DriftWritten => tick.branch = "corr"

C3_Witness ==
    /\ IsTick /\ tick.src = "timer" /\ ~tick.force
    /\ tick.branch = "suppressed" /\ writes = <<>>
    /\ Abs(tick.c - tick.tgt) > allowed
    /\ tick.corrGap # UNDEF /\ tick.corrGap < RateLimitMs

\* C4: targetTime() lies in [0, duration) for every wall-clock reading,
\* epoch offset and latency compensation, negative ones included.
C4_TargetInRange ==
    tick.src = "clock" =>
        /\ tick.tgt >= 0 /\ tick.tgt < duration
        /\ tick.utc >= 0 /\ tick.utc < duration

C4_Witness ==
    /\ tick.src = "clock"
    /\ now + offset + lat + audioLatency + Lag(platform) < 0
    /\ tick.tgt >= 0 /\ tick.tgt < duration

\* C5: targetTime() is (now + offset + measured + user-supplied + platform
\* seek lag) reduced modulo the loop duration, the lag being the iOS lag on
\* iOS, the Android lag on Android and 0 elsewhere.
C5_TargetFormula ==
    tick.src = "clock" =>
        LET platformLag == CASE platform = "ios" -> iosLag
                             [] platform = "android" -> andLag
                             [] OTHER -> 0
        IN  tick.tgt = (now + offset + lat + audioLatency + platformLag) % duration

C5_Witness ==
    /\ tick.src = "clock"
    /\ duration = 1800000 /\ offset = 0 /\ now = 905200
    /\ platform = "ios" /\ iosLag # 0
    /\ lat + audioLatency + iosLag = 50
    /\ tick.tgt = 905250

\* C6 as stated: while _looping is set no tick issues a corrective seek.
C6_NoSeekInLoopTransition == (IsTick /\ tick.wasLooping) => writes = <<>>

\* C7 as stated: with the media duration known, outside LoopTransition and
\* with 0 < duration - currentTime <= 0.1 s, the tick seeks to the target,
\* enters LoopTransition and corrects no drift; otherwise the guard is idle.
C7_LoopGuard ==
    IsTick =>
        LET tte == tick.dur - tick.c
        IN  /\ (tick.dur # 0 /\ ~tick.wasLooping /\ tte > 0 /\ tte <= LoopWindowMs)
                => /\ tick.branch = "loop"
                   /\ Len(writes) = 1 /\ writes[1].kind = "loop"
                   /\ writes[1].pos = tick.tgt
                   /\ looping
            /\ (tick.dur # 0 /\ (tte <= 0 \/ tte > LoopWindowMs))
                => tick.branch # "loop"

\* C7 amended: the same, provided the stuck guard, which sync evaluates
\* first, did not classify the tick as stuck.
C7_LoopGuardUnlessStuck ==
    IsTick =>
        LET tte == tick.dur - tick.c
        IN  /\ (tick.dur # 0 /\ ~tick.wasLooping /\ tte > 0 /\ tte <= LoopWindowMs
                  /\ tick.branch # "stuck")
                => /\ tick.branch = "loop"
                   /\ Len(writes) = 1 /\ writes[1].kind = "loop"
                   /\ writes[1].pos = tick.tgt
                   /\ cur = tick.tgt
                   /\ looping /\ loopDue = now + LoopHoldMs
            /\ (tick.dur # 0 /\ (tte <= 0 \/ tte > LoopWindowMs))
                => tick.branch # "loop"

C7_Witness ==
    /\ IsTick /\ tick.branch = "loop" /\ tick.src = "timer"
    /\ tick.dur - tick.c = LoopWindowMs
    /\ cur = tick.tgt /\ looping

\* C8: over 11 consecutive ticks of a progressive source that stays unpaused
\* at an unchanged position below the stuck threshold, Recovery is invoked
\* exactly once, on the tick that takes the counter past 10, and the counter
\* is zero right after.
C8_RecoveryOncePerEleven ==
    /\ Len(win) = StuckLimit + 1
          => Cardinality({i \in 1..Len(win) : win[i]}) = 1
    /\ (IsTick /\ tick.recover) => (tick.count = StuckLimit /\ stuckCount = 0)
    /\ (IsTick /\ tick.branch = "stuck" /\ tick.count = StuckLimit) => tick.recover

C8_Witness ==
    /\ IsTick /\ tick.recover /\ stuckCount = 0
    /\ Len(win) = StuckLimit + 1 /\ win[StuckLimit + 1]
    /\ \A i \in 1..StuckLimit : ~win[i]

\* C9 as stated: once handlePause has stopped synchronisation, and until the
\* user starts playback again, the engine issues no seek and no resume.
C9_NothingAfterStop == stopped => (writes = <<>> /\ ~resumeReq)

\* C10 as stated: the forced correction after an explicit seek is issued
\* even when a correction fired less than 500 ms earlier.
C10_SeekBypassesRateLimit ==
    (IsTick /\ tick.src = "seek" /\ tick.branch \in {"corr", "suppressed"})
        => tick.branch = "corr"

\* C10 amended: the forced tick after an explicit seek runs at once, but its
\* correction is issued only if no correction fired in the last 500 ms.
C10_SeekIsRateLimited ==
    (IsTick /\ tick.src = "seek") =>
        /\ tick.force
        /\ tick.branch = "corr" => (tick.corrGap = UNDEF \/ tick.corrGap > RateLimitMs)
        /\ (tick.corrGap # UNDEF /\ tick.corrGap <= RateLimitMs) => ~DriftWritten

C10_Witness ==
    /\ IsTick /\ tick.src = "seek" /\ tick.branch = "suppressed"
    /\ tick.corrGap # UNDEF /\ tick.corrGap <= RateLimitMs /\ writes = <<>>

\* C11 as stated: a forced tick (playback start or resume, explicit seek)
\* with no correction in the previous 500 ms seeks toward the target
\* whatever the drift, for both source kinds and from any position.
C11_ForcedTickCorrects ==
    (IsTick /\ tick.force
        /\ (tick.corrGap = UNDEF \/ tick.corrGap > RateLimitMs))
        => tick.branch \in {"corr", "loop"}

\* C12: for an adaptive-streaming source every correction that fires writes
\* exactly the target position, whatever the buffered ranges are.
C12_AdaptiveSeeksToTarget ==
    (IsTick /\ ~isMP3 /\ tick.branch = "corr") =>
        /\ Len(writes) = 1
        /\ writes[1].kind = "drift" /\ writes[1].pos = tick.tgt
        /\ cur = tick.tgt

C12_Witness ==
    /\ IsTick /\ ~isMP3 /\ tick.branch = "corr"
    /\ Abs(tick.c - tick.tgt) > allowed
    /\ buffered # <<>> /\ ~IsPositionBuffered(buffered, tick.tgt)
    /\ cur = tick.tgt

IsOracle == tick.src = "oracle"
Contains(r, p) == p >= r.s /\ p <= r.e
Qualifies(r) == Contains(r, tick.tgt) \/ (r.s > tick.c /\ r.s <= tick.tgt)

\* C13 as stated: when some buffered range contains the target or starts
\* between the current position and the target, findSafeSeekPosition returns
\* a position isPositionBuffered accepts; when none does it returns the
\* current position.
C13_SafeTargetIsBuffered ==
    IsOracle =>
        IF \E i \in 1..Len(buffered) : Qualifies(buffered[i])
        THEN tick.safeHit
        ELSE tick.safe = tick.c

\* C14 as stated: getCurrentBufferedEnd returns the end of the range that
\* contains the current position and the current position itself when no
\* range contains it, also when ranges start after it.
C14_EndOfContainingRange ==
    IsOracle =>
        IF \E i \in 1..Len(buffered) : Contains(buffered[i], tick.c)
        THEN \E i \in 1..Len(buffered) :
                Contains(buffered[i], tick.c) /\ tick.end = buffered[i].e
        ELSE tick.end = tick.c

\* C14 amended: getCurrentBufferedEnd returns the end of the range that
\* contains the current position; when no range contains it, it returns the
\* furthest end of the ranges that start after the current position, and the
\* current position itself only when no range starts after it.
C14_EndOfContainingOrLaterRange ==
    IsOracle =>
        LET later == {i \in 1..Len(buffered) : buffered[i].s > tick.c}
        IN  IF \E i \in 1..Len(buffered) : Contains(buffered[i], tick.c)
            THEN \E i \in 1..Len(buffered) :
                    Contains(buffered[i], tick.c) /\ tick.end = buffered[i].e
            ELSE IF later # {}
            THEN /\ \E i \in later : tick.end = buffered[i].e
                 /\ \A i \in later : tick.end >= buffered[i].e
            ELSE tick.end = tick.c

C14_Witness ==
    /\ IsOracle
    /\ ~\E i \in 1..Len(buffered) : Contains(buffered[i], tick.c)
    /\ Len(buffered) = 3 /\ tick.c < buffered[2].s
    /\ tick.end = buffered[3].e /\ tick.end > tick.c

\* C15: findSafeSeekPosition returns the target itself whenever a buffered
\* range contains it (edges included), whatever the current position and
\* the ranges before that range.
C15_BufferedTargetReturned ==
    IsOracle =>
        ((\E i \in 1..Len(buffered) : Contains(buffered[i], tick.tgt))
            => tick.safe = tick.tgt)

C15_Witness ==
    /\ IsOracle /\ Len(buffered) = 3
    /\ tick.c < buffered[1].s
    /\ tick.tgt = buffered[3].e
    /\ tick.safe = tick.tgt

\* C16: isPositionBuffered is true exactly for the positions covered by a
\* buffered range, its two edges included: false between two ranges and
\* false when nothing is buffered.
C16_BufferedIffCovered ==
    IsOracle =>
        LET covered == UNION {buffered[i].s .. buffered[i].e : i \in 1..Len(buffered)}
        IN  /\ tick.hit <=> tick.tgt \in covered
            /\ buffered = <<>> => ~tick.hit

C16_Witness ==
    /\ IsOracle /\ Len(buffered) = 2
    /\ tick.tgt = buffered[2].s /\ tick.hit

\* C17: for an adaptive-streaming source no tick counts as stuck and
\* recovery is never invoked, however long the position stays unchanged.
C17_NoRecoveryForAdaptive ==
    ~isMP3 =>
        /\ stuckCount = 0 /\ recovPlay = UNDEF /\ recovDue = {}
        /\ IsTick => (tick.branch # "stuck" /\ ~tick.recover)

C17_Witness ==
    /\ ~isMP3 /\ IsTick /\ tick.src = "timer"
    /\ ~paused /\ stalled
    /\ tick.lct = tick.c /\ tick.c # 0 /\ tick.c < StuckPosMs
    /\ stuckCount = 0

\* C18 as stated: on every step that takes playback from paused to playing
\* the stuck counter is zero and no recovery is pending afterwards, so stuck
\* ticks counted before the pause do not count after the resume.
C18_StuckStateResetOnPlay ==
    [][(paused /\ ~paused') => (stuckCount' = 0 /\ recovDue' = {})]_vars

\* C19 as stated: once playback has started with the metadata ready, the
\* tick timer runs even while the latency measurement is still waiting for
\* the audio pipeline to be activated.
C19_TicksDontWaitForMeasurement ==
    (hpAwait /\ metaReady /\ ~paused) => syncDue # 0

DriftExceeds == Abs(tick.c - tick.tgt) > allowed

C21_MeasurementIdempotent ==
    [][audioContext = "running"
         => (lat' = lat /\ audioContext' = audioContext)]_vars

C21_Witness ==
    /\ IsTick /\ tick.src = "play" /\ tick.ctx = "running"
    /\ audioContext = "running" /\ lat \in LatSamples

C23_ClockPeriodic ==
    tick.src = "clock" => (tick.tgtL = tick.tgt /\ tick.utcL = tick.utc)

C23_Witness ==
    /\ tick.src = "clock"
    /\ now + offset + TotalLatencyOf(lat) < 0
    /\ now + duration + offset + TotalLatencyOf(lat) > 0
    /\ tick.tgt > 0 /\ tick.tgtL = tick.tgt /\ tick.utcL = tick.utc

\* C24 as stated: a tick counts as stuck only for an unpaused progressive
\* source whose position is below the threshold and equal to the position
\* the previous tick observed; never on a first observation or after a
\* change of position.
C24_CountsOnlyUnchangedPosition ==
    (IsTick /\ tick.branch = "stuck")
        => /\ isMP3 /\ ~paused /\ tick.c < StuckPosMs
           /\ tick.lct # UNDEF /\ tick.lct = tick.c

\* C25 as stated: a tick that sees the source paused, or at a position
\* beyond the one the previous tick observed (position 0 included), leaves
\* the stuck counter at zero.
C25_AdvanceOrPauseResets ==
    (IsTick /\ (paused \/ (tick.lct # UNDEF /\ tick.c > tick.lct)))
        => stuckCount = 0

\* The position observed by the tick lies in the last 100 ms of the track.
InLoopWindow == tick.dur # 0 /\ tick.dur - tick.c > 0 /\ tick.dur - tick.c <= LoopWindowMs

\* The tolerance of the platform: 300 ms, doubled on mobile.
Tolerance == IF platform = "desktop" THEN DefaultAllowedMs ELSE 2 * DefaultAllowedMs

\* C26: a tick that is not forced, whose drift is at most the tolerance (a
\* drift equal to it included) and whose position is outside the loop
\* window, writes no position: the position stays where the tick found it
\* unless the stuck guard reloads the source.
C26_WithinToleranceNoWrite ==
    (IsTick /\ ~tick.force /\ Abs(tick.c - tick.tgt) <= Tolerance /\ ~InLoopWindow)
        => /\ writes = <<>>
           /\ tick.branch \in {"insync", "stuck"}
           /\ (~tick.recover => cur = tick.c)

C26_Witness ==
    /\ IsTick /\ ~tick.force /\ ~InLoopWindow
    /\ Abs(tick.c - tick.tgt) = Tolerance
    /\ tick.branch = "insync" /\ writes = <<>> /\ cur = tick.c

\* C27: the loop transition always ends 200 ms after it began.  While
\* _looping is set its timer is pending and due no later than 200 ms from
\* now; time never passes the due instant with the timer unfired; the flag
\* is cleared exactly at that instant, by the timer alone; and outside the
\* transition no loop timer is pending, so the guard can fire again.
C27_LoopTransitionEnds ==
    /\ [](looping => (loopDue # 0 /\ now <= loopDue /\ loopDue <= now + LoopHoldMs))
    /\ [](~looping => loopDue = 0)
    /\ [][(looping /\ now' > now) => (looping' /\ now' <= loopDue)]_vars
    /\ [][(looping /\ ~looping') => (now = loopDue /\ now' = now)]_vars

C27_Witness ==
    /\ IsTick /\ tick.branch = "loop" /\ looping
    /\ writes # <<>> /\ writes[1].kind = "loop" /\ writes[1].prevKind = "loop"
    /\ writes[1].gap >= LoopHoldMs

IsTier == tick.src = "tier"

\* The tick wrote position p and nothing else.
WroteOnly(p) == tick.ws = <<[pos |-> p, kind |-> "drift"]>> /\ cur = p

\* C28: tier (a): when the correction of a progressive source finds the safe
\* seek target ahead of the current position, the tick seeks to exactly that
\* target and makes no other write.
C28_SafeAdvance ==
    (IsTier /\ tick.safe > tick.c)
        => (tick.tier = "a" /\ WroteOnly(tick.safe))

C28_Witness ==
    /\ IsTier /\ tick.c = 10000 /\ tick.tgt = 18000
    /\ buffered = <<[s |-> 0, e |-> 12000], [s |-> 15000, e |-> 20000]>>
    /\ tick.safe = 18000 /\ tick.tier = "a" /\ cur = 18000

\* Tier (a) does not apply and the buffered end is more than 0.5 s ahead.
EdgeCase == IsTier /\ tick.safe <= tick.c /\ tick.end > tick.c + EdgeAheadMs

\* Tier (a) does not apply and the buffered end is exactly 0.5 s ahead.
MarginCase == IsTier /\ tick.safe <= tick.c /\ tick.end = tick.c + EdgeAheadMs

\* C29 as stated: in tier (b) the tick seeks to the buffered end minus 0.2 s,
\* a buffered position; a margin of exactly 0.5 s does not select the tier.
C29_EdgeJumpToEndMinusBackoff ==
    /\ EdgeCase => /\ tick.tier = "b"
                   /\ WroteOnly(tick.end - EdgeBackoffMs)
                   /\ IsPositionBuffered(buffered, cur)
    /\ MarginCase => tick.tier # "b"

\* C29 amended: in tier (b) the tick seeks to the smaller of the buffered end
\* minus 0.2 s and the target; the position written is buffered when the
\* current position is buffered and the target is not behind it; a margin
\* of exactly 0.5 s does not select the tier.
C29_EdgeJumpCappedAtTarget ==
    /\ EdgeCase => /\ tick.tier = "b"
                   /\ WroteOnly(Min(tick.end - EdgeBackoffMs, tick.tgt))
                   /\ (IsPositionBuffered(buffered, tick.c) /\ tick.tgt >= tick.c)
                         => IsPositionBuffered(buffered, cur)
    /\ MarginCase => tick.tier # "b"

C29_Witness ==
    /\ EdgeCase /\ tick.tier = "b"
    /\ tick.tgt < tick.end - EdgeBackoffMs
    /\ cur = tick.tgt /\ ~IsPositionBuffered(buffered, cur)

\* Neither tier (a) nor tier (b) applies.
BlindCase == IsTier /\ tick.safe <= tick.c /\ tick.end <= tick.c + EdgeAheadMs

\* C30 as stated: in tier (c) the tick jumps to min(current + 2 s, target).
C30_ForceJumpAlways ==
    BlindCase => WroteOnly(Min(tick.c + ForceJumpMs, tick.tgt))

\* C30 amended: in tier (c) the tick jumps to min(current + 2 s, target)
\* when that is ahead of the current position, advancing by at most 2 s and
\* not beyond the target, and writes nothing otherwise.
C30_ForceJumpWhenAhead ==
    BlindCase =>
        IF Min(tick.c + ForceJumpMs, tick.tgt) > tick.c
        THEN /\ tick.tier = "c"
             /\ WroteOnly(Min(tick.c + ForceJumpMs, tick.tgt))
             /\ cur > tick.c /\ cur - tick.c <= ForceJumpMs /\ cur <= tick.tgt
        ELSE tick.tier = "none" /\ tick.ws = <<>> /\ cur = tick.c

C30_Witness ==
    /\ BlindCase /\ tick.tgt > tick.c + ForceJumpMs
    /\ tick.tier = "c" /\ cur = tick.c + ForceJumpMs

\* The ranges whose start lies after the current position and not after the
\* target.
StartsBetween == {i \in 1..Len(buffered) :
                     buffered[i].s > tick.c /\ buffered[i].s <= tick.tgt}

\* C31: when no buffered range contains the target, findSafeSeekPosition
\* returns min(end - 0.5 s, target) for the range that reaches furthest among
\* those starting between the current position and the target, and the
\* current position when there is no such range (or no range at all).
C31_FurthestRangeTowardTarget ==
    (IsOracle /\ ~\E i \in 1..Len(buffered) : Contains(buffered[i], tick.tgt))
        => IF StartsBetween = {}
           THEN tick.safe = tick.c
           ELSE \E i \in StartsBetween :
                   /\ \A j \in StartsBetween : buffered[j].e <= buffered[i].e
                   /\ tick.safe = Min(buffered[i].e - SafeMarginMs, tick.tgt)

C31_Witness ==
    /\ IsOracle /\ Len(buffered) = 3
    /\ ~\E i \in 1..Len(buffered) : Contains(buffered[i], tick.tgt)
    /\ StartsBetween = {1, 2}
    /\ tick.safe = buffered[2].e - SafeMarginMs

\* The step is the deferred check of ensureMP3Playback running.
EnsureRuns == now \in ensureDue /\ now \notin ensureDue'

\* C32: every tick that writes a drift correction on a progressive source
\* schedules the deferred check 100 ms ahead and time does not pass it; the
\* check calls play() exactly when the element is paused at that moment; a
\* refused play() leaves the element and the engine as they were; no check
\* is ever pending for an adaptive source.
C32_DeferredResumeCheck ==
    /\ []((IsTick /\ isMP3 /\ DriftWritten) => (now + EnsureDelayMs) \in ensureDue)
    /\ [](\A d \in ensureDue : now <= d /\ d <= now + EnsureDelayMs)
    /\ [](~isMP3 => ensureDue = {})
    /\ [][EnsureRuns => (resumeReq' <=> paused)]_vars
    /\ [][(EnsureRuns /\ paused /\ paused')
            => UNCHANGED <<engVars, mediaVars, evq, syncDue, live, loopDue, recovDue>>]_vars

C32_Witness ==
    /\ isMP3 /\ resumeReq /\ ~paused
    /\ lastEng.kind = "drift" /\ now = lastEng.at + EnsureDelayMs
    /\ evq # <<>> /\ evq[Len(evq)] = "play"

RecoveryWritten == \E i \in 1..Len(writes) : writes[i].kind = "recovery"

\* C33: a recovery reloads the source first (position 0, nothing buffered,
\* play() pending); the deferred seek is armed only when that play()
\* resolves, 100 ms ahead and for the target the recovery was given; the seek
\* is written only by that timer, to findSafeSeekPosition and only when it
\* is above 0; when play() is rejected no seek is armed or written and the
\* engine fields stay as they were.
C33_RecoverySeeksAfterReload ==
    /\ []((IsTick /\ tick.recover)
            => (cur = 0 /\ buffered = <<>> /\ recovPlay = tick.tgt /\ writes = <<>>))
    /\ [](\A r \in recovDue : now <= r.due /\ r.due <= now + RecoverDelayMs)
    /\ [](RecoveryWritten => (Len(writes) = 1 /\ writes[1].pos > 0))
    /\ [][(recovDue' \ recovDue) # {}
            => /\ recovPlay # UNDEF /\ recovPlay' = UNDEF
               /\ recovDue' \ recovDue
                    = {[due |-> now + RecoverDelayMs, tgt |-> recovPlay]}]_vars
    /\ [][RecoveryWritten'
            => \E r \in recovDue :
                  /\ r.due = now /\ r \notin recovDue'
                  /\ writes'[1].pos = FindSafeSeekPosition(buffered, cur, r.tgt)]_vars
    /\ [][(recovPlay # UNDEF /\ recovPlay' = UNDEF /\ recovDue' = recovDue)
            => (writes' = <<>> /\ UNCHANGED <<engVars, cur, syncDue, live>>)]_vars

C33_Witness ==
    /\ RecoveryWritten /\ writes[1].pos > 0 /\ cur = writes[1].pos
    /\ recovDue = {} /\ recovPlay = UNDEF

\* C34 as stated: recoverFromStuck is not invoked while the reload or the
\* deferred seek of an earlier invocation is still pending.
C34_OneRecoveryInFlight ==
    [][(IsTick' /\ tick'.recover) => (recovPlay = UNDEF /\ recovDue = {})]_vars

\* C35: at most one interval timer drives sync at any time, the one behind
\* _syncInterval: startSync clears the previous interval before it creates
\* the next, whatever the order of play, pause and metadata events.
C35_OneTickTimer == live <= 1 /\ (live = 1 <=> syncDue # 0)

C35_Witness ==
    /\ IsTick /\ tick.src = "play" /\ tick.timerOn
    /\ live = 1 /\ syncDue = now + TickPeriod(platform)

\* handlePause has run for the last pause and no play event has occurred
\* since: the element is paused and no media event is waiting.
PausedAndHandled == stopped /\ paused /\ evq = <<>>

\* C36 as stated: once handlePause has run, and until the next play event,
\* no interval timer is active and no invocation of sync writes the
\* position, however handlePlay and handlePause interleave.
C36_NoTimerAfterPause ==
    PausedAndHandled => (live = 0 /\ syncDue = 0 /\ (IsTick => writes = <<>>))

\* The value of _lastSeek before the tick (0 when no correction had run).
LastSeekBefore == IF tick.corrGap = UNDEF THEN 0 ELSE now - tick.corrGap

\* C37 as stated: a tick that wrote no drift correction leaves the rate-limit
\* timestamp as it was.
C37_TimestampOnlyOnWrite ==
    (IsTick /\ ~DriftWritten) => lastSeek = LastSeekBefore

\* C37 amended: the rate-limit timestamp is set to the time of the tick by
\* every tick whose correction step ran (decision fired, limiter open),
\* whether or not a position was written, and by no other tick.
C37_TimestampOnEveryCorrection ==
    IsTick => IF tick.branch = "corr" THEN lastSeek = now
              ELSE lastSeek = LastSeekBefore

C37_Witness ==
    /\ IsTick /\ tick.branch = "corr" /\ writes = <<>>
    /\ lastSeek = now /\ LastSeekBefore # now

\* C38 as stated, in its finite form: the correction step of a progressive
\* source that is ahead of the target by more than the tolerance (and past
\* the stuck threshold) writes a position, whatever is buffered.  (The step
\* runs at most once per 500 ms and its outcome depends only on the
\* position, the target and the ranges, so a step that writes nothing is
\* repeated for as long as they persist.)
C38_AheadSourceIsCorrected ==
    (IsTier /\ tick.c >= StuckPosMs /\ tick.c - tick.tgt > allowed)
        => (tick.ws # <<>> /\ cur # tick.c)

\* Distance between the observed position and the target, linear and around
\* the loop.
LinearDist == Abs(tick.c - tick.tgt)
CircularDist == Min(LinearDist, duration - LinearDist)

\* C39 as stated: a non-forced tick whose position and target are within
\* the tolerance of each other around the loop writes no drift correction.
C39_NoCorrectionWithinCircularTolerance ==
    (IsTick /\ ~tick.force /\ CircularDist <= allowed) => ~DriftWritten

\* C39 amended: the tolerance is applied to the linear difference between
\* position and target.  A non-forced tick that no guard takes is in sync
\* exactly when that difference is at most the tolerance, and writes a
\* drift correction only when it is larger, however close the two are
\* around the loop.
C39_ToleranceIsLinear ==
    (IsTick /\ ~tick.force)
        => /\ DriftWritten => LinearDist > allowed
           /\ tick.branch \notin {"stuck", "loop"}
                => (tick.branch = "insync" <=> LinearDist <= allowed)

C39_Witness ==
    /\ IsTick /\ ~tick.force /\ tick.src = "timer"
    /\ CircularDist <= allowed /\ LinearDist > allowed
    /\ tick.c > tick.tgt
    /\ tick.branch = "corr" /\ DriftWritten /\ cur = tick.tgt

====
